---- MODULE Spec2Model ----
(***************************************************************************)
(* Model of density_checker (src/src/main.rs): a sequential, ring-shaped   *)
(* cellular automaton for the density classification task, its             *)
(* correctness oracle and the parallel exhaustive search over all initial  *)
(* configurations of a size.                                               *)
(*                                                                         *)
(* The six per-cell attributes are kept, as in the source, as bits of six  *)
(* numbers; every bit operation of the source is modelled arithmetically.  *)
(***************************************************************************)
EXTENDS Integers, FiniteSets, Sequences, TLC

\* ------------------------------------------------------------------ bounds
\* Largest ring size explored by the sweep and oracle specifications.
MaxSize == 10
\* How many sweeps beyond size + 1 the free-running sweep specifications go.
ExtraSweeps == 2
\* Largest size handed to find_counter_example in the search specification.
MaxSearchSize == 3
\* Number of rayon worker threads evaluating candidates concurrently.
NumWorkers == 2
\* Largest ring size swept one cell at a time.
MaxCellSize == 8
\* Largest ring size on which single calls of the rule are enumerated.
MaxRuleSize == 3

\* Smallest size search_all hands to search_size (for size in 2..=30).
MinSize == 2

\* ------------------------------------------------------- bit-level helpers
\* `x & 1 << k != 0`
TestBit(x, k) == (x \div (2 ^ k)) % 2 = 1
\* `x |= 1 << k`
SetBit(x, k) == IF TestBit(x, k) THEN x ELSE x + 2 ^ k
\* `x &= !(1 << k)`
ClearBit(x, k) == IF TestBit(x, k) THEN x - 2 ^ k ELSE x

\* A copy with the two indexes exchanged: it writes the bit of the source.
self_assign_swapped(mem, to_index, from_index) ==
    IF TestBit(mem, to_index) THEN SetBit(mem, from_index)
                              ELSE ClearBit(mem, from_index)

\* fn self_assign(mem, to_index, from_index): copy bit from_index to to_index
self_assign(mem, to_index, from_index) ==
    IF TestBit(mem, from_index) THEN SetBit(mem, to_index)
                                ELSE ClearBit(mem, to_index)

\* fn assign_bool(to, to_index, value)
assign_bool(to, to_index, value) ==
    IF value THEN SetBit(to, to_index) ELSE ClearBit(to, to_index)

\* ------------------------------------------------------------ Configuration
\* Configuration::new(value, size): every other field is Default (0).
new(value, size) ==
    [size |-> size, value |-> value, alphabet |-> 0, taken |-> 0,
     color |-> 0, mem_0 |-> 0, mem_1 |-> 0]

\* A kick start that records a 0 in memory whatever the cell's value is.
kick_start_always_mem_0(c, index) ==
    LET c1 == [c EXCEPT !.alphabet = SetBit(c.alphabet, index)]
        c2 == [c1 EXCEPT !.mem_0 = SetBit(c1.mem_0, index)]
    IN  [c2 EXCEPT !.taken = SetBit(c2.taken, index)]

\* A kick start that stores the value in memory but does not mark it taken.
kick_start_without_taken(c, index) ==
    LET c1 == [c EXCEPT !.alphabet = SetBit(c.alphabet, index)]
    IN  IF TestBit(c1.value, index)
        THEN [c1 EXCEPT !.mem_1 = SetBit(c1.mem_1, index)]
        ELSE [c1 EXCEPT !.mem_0 = SetBit(c1.mem_0, index)]

\* Kick start (left and self boolean, values differ): lines 187-197.
kick_start(c, index) ==
    LET c1 == [c EXCEPT !.alphabet = SetBit(c.alphabet, index)]
        c2 == IF TestBit(c1.value, index)
              THEN [c1 EXCEPT !.mem_1 = SetBit(c1.mem_1, index)]
              ELSE [c1 EXCEPT !.mem_0 = SetBit(c1.mem_0, index)]
    IN  [c2 EXCEPT !.taken = SetBit(c2.taken, index)]

\* A propagation that copies the value but leaves the cell intermediate.
propagate_stays_intermediate(c, left, index) ==
    [c EXCEPT !.value = self_assign(c.value, index, left)]

\* A propagation that reverts to boolean but keeps the cell's own value.
propagate_keeps_value(c, left, index) ==
    LET c1 == [c EXCEPT !.alphabet = ClearBit(c.alphabet, index)]
    IN  [c1 EXCEPT !.value = self_assign(c1.value, index, index)]

\* Propagation (left boolean, self intermediate): lines 200-204.
propagate(c, left, index) ==
    LET c1 == [c EXCEPT !.alphabet = ClearBit(c.alphabet, index)]
    IN  [c1 EXCEPT !.value = self_assign(c1.value, index, left)]

\* A scan that does not look at the taken flag before capturing.
scan_ignores_taken(c, left, index) ==
    LET c1 == [c EXCEPT !.alphabet = SetBit(c.alphabet, index),
                        !.color = self_assign(c.color, index, left),
                        !.mem_0 = self_assign(c.mem_0, index, left),
                        !.mem_1 = self_assign(c.mem_1, index, left)]
        value == TestBit(c1.value, index)
    IN  IF ~value /\ TestBit(c1.mem_0, index) THEN c1
        ELSE IF value /\ TestBit(c1.mem_1, index) THEN c1
        ELSE IF ~value
             THEN [c1 EXCEPT !.taken = SetBit(c1.taken, index),
                             !.mem_0 = SetBit(c1.mem_0, index)]
             ELSE [c1 EXCEPT !.taken = SetBit(c1.taken, index),
                             !.mem_1 = SetBit(c1.mem_1, index)]

\* A scan that also copies the left neighbor's value, as propagation does.
scan_copies_value(c, left, index) ==
    LET c1 == [c EXCEPT !.alphabet = SetBit(c.alphabet, index),
                        !.value = self_assign(c.value, index, left),
                        !.color = self_assign(c.color, index, left),
                        !.mem_0 = self_assign(c.mem_0, index, left),
                        !.mem_1 = self_assign(c.mem_1, index, left)]
        value == TestBit(c1.value, index)
    IN  IF TestBit(c1.taken, index) THEN c1
        ELSE IF ~value /\ TestBit(c1.mem_0, index) THEN c1
        ELSE IF value /\ TestBit(c1.mem_1, index) THEN c1
        ELSE IF ~value
             THEN [c1 EXCEPT !.taken = SetBit(c1.taken, index),
                             !.mem_0 = SetBit(c1.mem_0, index)]
             ELSE [c1 EXCEPT !.taken = SetBit(c1.taken, index),
                             !.mem_1 = SetBit(c1.mem_1, index)]

\* Scanning branch (left is intermediate; self boolean or of another color).
scan(c, left, index) ==
    LET c1 == [c EXCEPT !.alphabet = SetBit(c.alphabet, index),
                        !.color = self_assign(c.color, index, left),
                        !.mem_0 = self_assign(c.mem_0, index, left),
                        !.mem_1 = self_assign(c.mem_1, index, left)]
        value == TestBit(c1.value, index)
    IN  IF TestBit(c1.taken, index) THEN c1
        ELSE IF ~value /\ TestBit(c1.mem_0, index) THEN c1
        ELSE IF value /\ TestBit(c1.mem_1, index) THEN c1
        ELSE IF ~value
             THEN [c1 EXCEPT !.taken = SetBit(c1.taken, index),
                             !.mem_0 = SetBit(c1.mem_0, index)]
             ELSE [c1 EXCEPT !.taken = SetBit(c1.taken, index),
                             !.mem_1 = SetBit(c1.mem_1, index)]

\* A resolution that consults the cell's own memory instead of its left
\* neighbor's.
brain_reads_own_memory(c, left, index) ==
    IF TestBit(c.mem_0, left) /\ TestBit(c.mem_1, left)
    THEN [c EXCEPT !.color = assign_bool(c.color, index, ~TestBit(c.color, index)),
                   !.mem_0 = ClearBit(c.mem_0, index),
                   !.mem_1 = ClearBit(c.mem_1, index)]
    ELSE LET c1 == [c EXCEPT !.alphabet = ClearBit(c.alphabet, index)]
         IN  IF TestBit(c1.mem_1, index)
             THEN [c1 EXCEPT !.value = assign_bool(c1.value, index, TRUE)]
             ELSE [c1 EXCEPT !.value = assign_bool(c1.value, index, FALSE)]

\* Same-color branch ("the brain"): phase flip or resolution to boolean.
brain(c, left, index) ==
    IF TestBit(c.mem_0, left) /\ TestBit(c.mem_1, left)
    THEN [c EXCEPT !.color = assign_bool(c.color, index, ~TestBit(c.color, index)),
                   !.mem_0 = ClearBit(c.mem_0, index),
                   !.mem_1 = ClearBit(c.mem_1, index)]
    ELSE LET c1 == [c EXCEPT !.alphabet = ClearBit(c.alphabet, index)]
         IN  IF TestBit(c1.mem_1, left)
             THEN [c1 EXCEPT !.value = assign_bool(c1.value, index, TRUE)]
             ELSE [c1 EXCEPT !.value = assign_bool(c1.value, index, FALSE)]

\* The rule with the agreement test `00 -> 0, 11 -> 1` inverted.
apply_local_function_inverted_test(c, left, index) ==
    IF ~TestBit(c.alphabet, left)
    THEN IF ~TestBit(c.alphabet, index)
         THEN IF TestBit(c.value, left) # TestBit(c.value, index)
              THEN c
              ELSE kick_start(c, index)
         ELSE propagate(c, left, index)
    ELSE IF ~TestBit(c.alphabet, index)
            \/ (TestBit(c.color, left) # TestBit(c.color, index))
         THEN scan(c, left, index)
         ELSE brain(c, left, index)

\* Configuration::apply_local_function(left, index)
apply_local_function(c, left, index) ==
    IF ~TestBit(c.alphabet, left)
    THEN \* left is boolean
         IF ~TestBit(c.alphabet, index)
         THEN IF TestBit(c.value, left) = TestBit(c.value, index)
              THEN c
              ELSE kick_start(c, index)
         ELSE propagate(c, left, index)
    ELSE \* left is intermediate
         IF ~TestBit(c.alphabet, index)
            \/ (TestBit(c.color, left) # TestBit(c.color, index))
         THEN scan(c, left, index)
         ELSE brain(c, left, index)

\* The `for k in 1..self.size` loop of update, from index k on.
RECURSIVE update_from(_, _)
update_from(c, k) ==
    IF k >= c.size THEN c
    ELSE update_from(apply_local_function(c, k - 1, k), k + 1)

\* A sweep whose loop runs over 1..=size, one index past the last cell.
update_through_size(c) ==
    apply_local_function(update_from(apply_local_function(c, c.size - 1, 0), 1),
                         c.size - 1, c.size)

\* A sweep that visits the cells from right to left, so that every cell reads
\* its left neighbor as it stood before the sweep.
RECURSIVE update_down_from(_, _)
update_down_from(c, k) ==
    IF k < 1 THEN c
    ELSE update_down_from(apply_local_function(c, k - 1, k), k - 1)

update_right_to_left(c) ==
    apply_local_function(update_down_from(c, c.size - 1), c.size - 1, 0)

\* A sweep that serves cell 0 last, so that it reads cell size-1 as updated.
update_cell_0_last(c) ==
    apply_local_function(update_from(c, 1), c.size - 1, 0)

\* Configuration::update(): one sweep over the ring.
update(c) == update_from(apply_local_function(c, c.size - 1, 0), 1)

\* A convergence test whose all-ones mask lacks the `- 1`.
has_converged_no_minus_one(c) ==
    c.alphabet = 0 /\ (c.value = 0 \/ c.value = 2 ^ c.size)

\* Configuration::has_converged()
has_converged(c) ==
    c.alphabet = 0 /\ (c.value = 0 \/ c.value = 2 ^ c.size - 1)

\* A count of 0s over the inclusive range `0..=size`.
count_0_inclusive(c) == Cardinality({k \in 0 .. c.size : ~TestBit(c.value, k)})

\* A count of 1s over the range `1..size`, which leaves cell 0 out.
count_1_from_one(c) == Cardinality({k \in 1 .. c.size : TestBit(c.value, k)})

\* The counting loop of is_correct: number of 1 bits among the size cells.
count_1(c) == Cardinality({k \in 0 .. c.size - 1 : TestBit(c.value, k)})
count_0(c) == Cardinality({k \in 0 .. c.size - 1 : ~TestBit(c.value, k)})

\* `let majority = if count_0 > count_1 { 0 } else { 1 }`
majority_of(c) == IF count_0(c) > count_1(c) THEN 0 ELSE 1

\* The `while !self.has_converged()` loop of is_correct, as a function.
RECURSIVE is_correct_loop(_, _, _)
is_correct_loop(c, maj, count) ==
    IF has_converged(c) THEN maj = c.value % 2
    ELSE IF count > c.size THEN FALSE
    ELSE is_correct_loop(update(c), maj, count + 1)

\* Configuration::is_correct() as a function of the configuration.
is_correct(c) ==
    IF count_0(c) = count_1(c) THEN TRUE
    ELSE is_correct_loop(c, majority_of(c), 0)

\* ------------------------------------------------------------------- state
VARIABLES
    cfg,              \* the Configuration under execution
    initial,          \* the value it was constructed from
    pc,               \* position inside is_correct: "count", "loop", "done"
    majority,         \* local of is_correct
    iteration_count,  \* local of is_correct
    result,           \* return value of is_correct
    sweeps,           \* number of update() calls made by a caller of update
    mirror,           \* a second Configuration, built from the complement
    fsize,            \* the size argument of find_counter_example
    pending,          \* candidates no worker has picked up yet
    inflight,         \* candidates whose closure is running on a worker
    order,            \* candidates whose is_correct call has returned, in
                      \* the order in which the calls returned
    taken_count,      \* the shared counter of take_any(1)
    collected,        \* the Vec built by collect()
    fpc,              \* position of the search: "par", "returned", "reported"
    ret,              \* find_counter_example's Option: <<>> or <<k>>
    report,           \* what search_size printed: "clean" or "error"
    before,           \* the Configuration before the latest call of
                      \* apply_local_function
    left_arg,         \* the `left` argument of that call
    index_arg,        \* the `index` argument of that call
    calls,            \* calls of apply_local_function made in this sweep
    cpc               \* position of the caller: "call", "returned", "sweep"

oracle_vars == <<pc, majority, iteration_count, result>>
search_vars == <<fsize, pending, inflight, order, taken_count, collected,
                 fpc, ret, report>>
cell_vars == <<before, left_arg, index_arg, calls, cpc>>
vars == <<cfg, initial, sweeps, mirror, oracle_vars, search_vars, cell_vars>>

\* Values without bits at index >= size.
ValidValues(size) == 0 .. 2 ^ size - 1
Sizes == MinSize .. MaxSize

\* Values of the variables a specification does not use.
OracleIdle ==
    pc = "idle" /\ majority = 0 /\ iteration_count = 0 /\ result = FALSE
SearchIdle ==
    /\ fsize = 0 /\ pending = {} /\ inflight = {} /\ order = <<>>
    /\ taken_count = 0 /\ collected = <<>> /\ fpc = "idle" /\ ret = <<>>
    /\ report = ""

CellIdle ==
    /\ before = new(0, 0) /\ left_arg = 0 /\ index_arg = 0 /\ calls = 0
    /\ cpc = "idle"

\* ------------------------------------------------- the oracle, step by step
Init ==
    /\ \E size \in Sizes : \E value \in ValidValues(size) :
          /\ cfg = new(value, size)
          /\ initial = value
    /\ pc = "count"
    /\ majority = 0
    /\ iteration_count = 0
    /\ result = FALSE
    /\ sweeps = 0
    /\ mirror = new(0, 0)
    /\ SearchIdle
    /\ CellIdle

\* is_correct, lines 315-327: count, tie short-circuit, majority.
IsCorrectCount ==
    /\ pc = "count"
    /\ IF count_0(cfg) = count_1(cfg)
       THEN /\ result' = TRUE
            /\ pc' = "done"
            /\ UNCHANGED <<majority, iteration_count>>
       ELSE /\ majority' = majority_of(cfg)
            /\ iteration_count' = 0
            /\ pc' = "loop"
            /\ UNCHANGED result
    /\ UNCHANGED <<cfg, initial, sweeps, mirror, search_vars, cell_vars>>

\* The loop of is_correct with the body run before the condition is tested.
IsCorrectLoop_do_while ==
    /\ pc = "loop"
    /\ IF has_converged(cfg) /\ iteration_count > 0
       THEN /\ result' = (majority = cfg.value % 2)
            /\ pc' = "done"
            /\ UNCHANGED <<cfg, iteration_count>>
       ELSE IF iteration_count > cfg.size
       THEN /\ result' = FALSE
            /\ pc' = "done"
            /\ UNCHANGED <<cfg, iteration_count>>
       ELSE /\ cfg' = update(cfg)
            /\ iteration_count' = iteration_count + 1
            /\ UNCHANGED <<pc, result>>
    /\ UNCHANGED <<initial, majority, sweeps, mirror, search_vars, cell_vars>>

\* is_correct, lines 329-339: one evaluation of the loop condition and body.
IsCorrectLoop ==
    /\ pc = "loop"
    /\ IF has_converged(cfg)
       THEN /\ result' = (majority = cfg.value % 2)
            /\ pc' = "done"
            /\ UNCHANGED <<cfg, iteration_count>>
       ELSE IF iteration_count > cfg.size
       THEN /\ result' = FALSE
            /\ pc' = "done"
            /\ UNCHANGED <<cfg, iteration_count>>
       ELSE /\ cfg' = update(cfg)
            /\ iteration_count' = iteration_count + 1
            /\ UNCHANGED <<pc, result>>
    /\ UNCHANGED <<initial, majority, sweeps, mirror, search_vars, cell_vars>>

Next == IsCorrectCount \/ IsCorrectLoop

Spec == Init /\ [][Next]_vars

\* ------------------------------------------- a caller sweeping a fresh ring
\* Configuration::new followed by any number of calls of the public update().
InitSweeps ==
    /\ \E size \in Sizes : \E value \in ValidValues(size) :
          /\ cfg = new(value, size)
          /\ initial = value
    /\ sweeps = 0
    /\ mirror = new(0, 0)
    /\ OracleIdle
    /\ SearchIdle
    /\ CellIdle

\* One call of update(); the number of calls is capped to keep the run finite.
Update ==
    /\ sweeps < cfg.size + 1 + ExtraSweeps
    /\ cfg' = update(cfg)
    /\ sweeps' = sweeps + 1
    /\ UNCHANGED <<initial, mirror, oracle_vars, search_vars, cell_vars>>

NextSweeps == Update

SpecSweeps == InitSweeps /\ [][NextSweeps]_vars

\* --------------------------- a configuration and its complement, in lockstep
\* v XOR (2^size - 1) for a v without bits at index >= size.
Complement(value, size) == 2 ^ size - 1 - value

InitPair ==
    /\ \E size \in Sizes : \E value \in ValidValues(size) :
          /\ count_0(new(value, size)) # count_1(new(value, size))
          /\ cfg = new(value, size)
          /\ initial = value
          /\ mirror = new(Complement(value, size), size)
    /\ sweeps = 0
    /\ OracleIdle
    /\ SearchIdle
    /\ CellIdle

\* One call of update() on each of the two configurations.
UpdatePair ==
    /\ sweeps < cfg.size + 1 + ExtraSweeps
    /\ cfg' = update(cfg)
    /\ mirror' = update(mirror)
    /\ sweeps' = sweeps + 1
    /\ UNCHANGED <<initial, oracle_vars, search_vars, cell_vars>>

NextPair == UpdatePair

SpecPair == InitPair /\ [][NextPair]_vars

\* ------------------------------------------------ the parallel search
\* A range that stops one candidate short.
Candidates_short(size) == 0 .. 2 ^ (size - 1) - 2

\* The range `0..1 << size - 1` that find_counter_example enumerates.
Candidates(size) == 0 .. 2 ^ (size - 1) - 1

InitSearch ==
    /\ \E size \in MinSize .. MaxSearchSize :
          /\ fsize = size
          /\ pending = Candidates(size)
    /\ inflight = {}
    /\ order = <<>>
    /\ taken_count = 0
    /\ collected = <<>>
    /\ fpc = "par"
    /\ ret = <<>>
    /\ report = ""
    /\ cfg = new(0, 0) /\ mirror = new(0, 0) /\ initial = 0 /\ sweeps = 0
    /\ OracleIdle
    /\ CellIdle

\* A worker takes a candidate of the range; rayon fixes no order among them.
\* Once take_any(1) is full, no further candidate is fed into the pipeline.
WorkerStart(k) ==
    /\ fpc = "par"
    /\ k \in pending
    /\ Cardinality(inflight) < NumWorkers
    /\ taken_count < 1
    /\ pending' = pending \ {k}
    /\ inflight' = inflight \cup {k}
    /\ UNCHANGED <<cfg, initial, sweeps, mirror, oracle_vars, cell_vars,
                   fsize, order,
                   taken_count, collected, fpc, ret, report>>

\* A worker whose filter keeps the candidates that passed.
WorkerFinish_keeps_successes(k) ==
    /\ fpc = "par"
    /\ k \in inflight
    /\ inflight' = inflight \ {k}
    /\ order' = Append(order, k)
    /\ IF is_correct(new(k, fsize))
       THEN /\ taken_count' = taken_count + 1
            /\ collected' = IF taken_count < 1 THEN Append(collected, k)
                                               ELSE collected
       ELSE UNCHANGED <<taken_count, collected>>
    /\ UNCHANGED <<cfg, initial, sweeps, mirror, oracle_vars, cell_vars,
                   fsize, pending,
                   fpc, ret, report>>

\* The worker runs map (is_correct on a fresh configuration), filter (keep
\* the failures) and take_any(1) (first arrival wins, the rest is dropped).
WorkerFinish(k) ==
    /\ fpc = "par"
    /\ k \in inflight
    /\ inflight' = inflight \ {k}
    /\ order' = Append(order, k)
    /\ IF ~is_correct(new(k, fsize))
       THEN /\ taken_count' = taken_count + 1
            /\ collected' = IF taken_count < 1 THEN Append(collected, k)
                                               ELSE collected
       ELSE UNCHANGED <<taken_count, collected>>
    /\ UNCHANGED <<cfg, initial, sweeps, mirror, oracle_vars, cell_vars,
                   fsize, pending,
                   fpc, ret, report>>

\* collect() returns once every worker is done and the range is exhausted or
\* take_any is full; `.iter().next().copied()` yields the Option.
Collect ==
    /\ fpc = "par"
    /\ inflight = {}
    /\ pending = {} \/ taken_count >= 1
    /\ ret' = IF collected = <<>> THEN <<>> ELSE <<Head(collected)>>
    /\ fpc' = "returned"
    /\ UNCHANGED <<cfg, initial, sweeps, mirror, oracle_vars, cell_vars,
                   fsize, pending,
                   inflight, order, taken_count, collected, report>>

\* search_size: print the error or "size {size} clean".
SearchSizeReport ==
    /\ fpc = "returned"
    /\ report' = IF ret = <<>> THEN "clean" ELSE "error"
    /\ fpc' = "reported"
    /\ UNCHANGED <<cfg, initial, sweeps, mirror, oracle_vars, cell_vars,
                   fsize, pending,
                   inflight, order, taken_count, collected, ret>>

NextSearch ==
    \/ \E k \in Candidates(fsize) : WorkerStart(k)
    \/ \E k \in Candidates(fsize) : WorkerFinish(k)
    \/ Collect
    \/ SearchSizeReport

SpecSearch == InitSearch /\ [][NextSearch]_vars

\* --------------------------------------------------- the trace loops
\* search_size and show_random_execution: a fresh (valid) configuration, then
\* `while !x.has_converged() { x.update(); x.println(); }`.
InitTrace ==
    /\ \E size \in Sizes : \E value \in ValidValues(size) :
          /\ cfg = new(value, size)
          /\ initial = value
    /\ sweeps = 0
    /\ mirror = new(0, 0)
    /\ OracleIdle
    /\ SearchIdle
    /\ CellIdle

\* One turn of the loop; the number of turns is capped to keep the run finite.
TraceStep ==
    /\ ~has_converged(cfg)
    /\ sweeps < cfg.size + 1 + ExtraSweeps
    /\ cfg' = update(cfg)
    /\ sweeps' = sweeps + 1
    /\ UNCHANGED <<initial, mirror, oracle_vars, search_vars, cell_vars>>

NextTrace == TraceStep

SpecTrace == InitTrace /\ [][NextTrace]_vars

\* ------------------------------------------- update(), one cell at a time
InitCells ==
    /\ \E size \in MinSize .. MaxCellSize : \E value \in ValidValues(size) :
          /\ cfg = new(value, size)
          /\ before = new(value, size)
          /\ initial = value
    /\ sweeps = 0
    /\ left_arg = 0 /\ index_arg = 0 /\ calls = 0
    /\ cpc = "sweep"
    /\ mirror = new(0, 0)
    /\ OracleIdle
    /\ SearchIdle

\* update(), line 282: `self.apply_local_function(self.size - 1, 0)`.
UpdateFirstCell ==
    /\ cpc = "sweep"
    /\ calls = 0
    /\ sweeps < cfg.size + 1 + ExtraSweeps
    /\ before' = cfg
    /\ left_arg' = cfg.size - 1
    /\ index_arg' = 0
    /\ cfg' = apply_local_function(cfg, cfg.size - 1, 0)
    /\ calls' = 1
    /\ UNCHANGED <<initial, sweeps, mirror, oracle_vars, search_vars, cpc>>

\* update(), lines 284-286: one turn of `for k in 1..self.size`; the sweep
\* is over after the turn for k = size - 1.
UpdateNextCell ==
    /\ cpc = "sweep"
    /\ calls >= 1
    /\ calls < cfg.size
    /\ before' = cfg
    /\ left_arg' = calls - 1
    /\ index_arg' = calls
    /\ cfg' = apply_local_function(cfg, calls - 1, calls)
    /\ calls' = IF calls + 1 = cfg.size THEN 0 ELSE calls + 1
    /\ sweeps' = IF calls + 1 = cfg.size THEN sweeps + 1 ELSE sweeps
    /\ UNCHANGED <<initial, mirror, oracle_vars, search_vars, cpc>>

NextCells == UpdateFirstCell \/ UpdateNextCell

SpecCells == InitCells /\ [][NextCells]_vars

\* --------------------------------- one call of the rule, on any attributes
Fields == {"value", "alphabet", "taken", "color", "mem_0", "mem_1"}

\* The word whose bit `index` is bi, whose bit `left` is bl and whose other
\* bits below k + 1 are all `fill`.
RECURSIVE pack(_, _, _, _, _, _)
pack(k, index, left, bi, bl, fill) ==
    IF k < 0 THEN 0
    ELSE (IF (IF k = index THEN bi ELSE IF k = left THEN bl ELSE fill)
          THEN 2 ^ k ELSE 0)
         + pack(k - 1, index, left, bi, bl, fill)

\* A caller about to call apply_local_function(left, index), left # index, on
\* a ring whose two cells carry any attributes (the fields are public).
InitRule ==
    /\ \E size \in MinSize .. MaxRuleSize :
       \E index \in 0 .. size - 1 : \E left \in (0 .. size - 1) \ {index} :
       \E self_bits \in [Fields -> BOOLEAN] : \E left_bits \in [Fields -> BOOLEAN] :
       \E fill \in BOOLEAN :
          /\ cfg = [size |-> size,
                    value |-> pack(size - 1, index, left, self_bits["value"], left_bits["value"], fill),
                    alphabet |-> pack(size - 1, index, left, self_bits["alphabet"], left_bits["alphabet"], fill),
                    taken |-> pack(size - 1, index, left, self_bits["taken"], left_bits["taken"], fill),
                    color |-> pack(size - 1, index, left, self_bits["color"], left_bits["color"], fill),
                    mem_0 |-> pack(size - 1, index, left, self_bits["mem_0"], left_bits["mem_0"], fill),
                    mem_1 |-> pack(size - 1, index, left, self_bits["mem_1"], left_bits["mem_1"], fill)]
          /\ left_arg = left
          /\ index_arg = index
    /\ before = cfg
    /\ calls = 0
    /\ cpc = "call"
    /\ initial = 0 /\ sweeps = 0
    /\ mirror = new(0, 0)
    /\ OracleIdle
    /\ SearchIdle

\* The call itself.
ApplyRule ==
    /\ cpc = "call"
    /\ before' = cfg
    /\ cfg' = apply_local_function(cfg, left_arg, index_arg)
    /\ calls' = calls + 1
    /\ cpc' = "returned"
    /\ UNCHANGED <<initial, sweeps, mirror, oracle_vars, search_vars,
                   left_arg, index_arg>>

NextRule == ApplyRule

SpecRule == InitRule /\ [][NextRule]_vars

\* ------------------------------------------------------------- properties
\* Number of 1s among the cells 0..size-1 of a value, and the tie test.
Ones(value, size) == Cardinality({k \in 0 .. size - 1 : TestBit(value, k)})
Tie(value, size) == 2 * Ones(value, size) = size
\* The majority bit of a value without tie.
MajorityBit(value, size) == IF 2 * Ones(value, size) > size THEN 1 ELSE 0
\* Every cell 0..size-1 of the configuration holds bit b.
AllCells(c, b) == \A k \in 0 .. c.size - 1 : TestBit(c.value, k) = (b = 1)
\* No cell 0..size-1 of the configuration is Intermediate.
NoIntermediate(c) == \A k \in 0 .. c.size - 1 : ~TestBit(c.alphabet, k)
\* The configuration after n calls of update().
RECURSIVE sweep_n(_, _)
sweep_n(c, n) == IF n = 0 THEN c ELSE sweep_n(update(c), n - 1)

\* C1: for every size and every valid initial value whose counts of 0s and
\* 1s differ, is_correct() returns true: it ends, within its sweep budget, in
\* a converged state in which every cell holds the initial majority bit.
C1_DensityClassified ==
    (pc = "done" /\ ~Tie(initial, cfg.size)) =>
        /\ result = TRUE
        /\ has_converged(cfg)
        /\ AllCells(cfg, MajorityBit(initial, cfg.size))
        /\ iteration_count <= cfg.size + 1

\* The oracle has returned on a value with the top bit set that needed sweeps.
C1_Witness ==
    /\ pc = "done"
    /\ ~Tie(initial, cfg.size)
    /\ TestBit(initial, cfg.size - 1)
    /\ iteration_count >= 2
    /\ result = TRUE
    /\ AllCells(cfg, 0)

\* C2: a value without tie and its complement converge at the same sweeps,
\* to opposite uniform values, and is_correct() judges them alike.
C2_ComplementSymmetry ==
    /\ has_converged(cfg) <=> has_converged(mirror)
    /\ has_converged(cfg) => mirror.value = Complement(cfg.value, cfg.size)
    /\ is_correct(new(initial, cfg.size))
         = is_correct(new(Complement(initial, cfg.size), cfg.size))

\* Both runs have converged after sweeps, one to all 0, the other to all 1.
C2_Witness ==
    /\ sweeps >= 2
    /\ ~has_converged(sweep_n(new(initial, cfg.size), sweeps - 1))
    /\ has_converged(cfg) /\ has_converged(mirror)
    /\ AllCells(cfg, 1) /\ AllCells(mirror, 0)

\* C3: search_size reports "clean" exactly if every value of the size, top
\* bit set or clear, whose counts differ is classified correctly.
C3_CleanCoversWholeSize ==
    fpc = "reported" =>
        (report = "clean" <=>
            \A v \in ValidValues(fsize) :
                ~Tie(v, fsize) => is_correct(new(v, fsize)))

\* A clean verdict has been reported for size 3.
C3_Witness ==
    fpc = "reported" /\ report = "clean" /\ fsize = 3

\* C5: None is returned only after every candidate of [0, 2^(size-1)) has
\* been evaluated and found correct; a failing candidate forces Some.
C5_NoCandidateSkipped ==
    fpc \in {"returned", "reported"} =>
        /\ ret = <<>> =>
              /\ {order[i] : i \in 1 .. Len(order)} = 0 .. 2 ^ (fsize - 1) - 1
              /\ \A k \in 0 .. 2 ^ (fsize - 1) - 1 : is_correct(new(k, fsize))
        /\ (\E k \in 0 .. 2 ^ (fsize - 1) - 1 : ~is_correct(new(k, fsize)))
              => ret # <<>>

\* None has been returned after the candidates completed out of numeric order.
C5_Witness ==
    /\ fpc = "returned" /\ ret = <<>> /\ fsize = 3
    /\ Len(order) = 4 /\ order[1] = 3 /\ order[4] = 0

\* C6: in a state where has_converged() is true, update() changes no field.
C6_FixedPoint == [][has_converged(cfg) => cfg' = cfg]_vars

\* update() has been called on a state that had converged after sweeps.
C6_Witness ==
    /\ sweeps = cfg.size + 1 + ExtraSweeps
    /\ has_converged(cfg)
    /\ ~has_converged(new(initial, cfg.size))
    /\ has_converged(sweep_n(new(initial, cfg.size), sweeps - 1))

\* C7 as stated: the first converged state comes after at most size sweeps.
C7_ConvergesWithinSize ==
    [][(~has_converged(cfg) /\ has_converged(cfg')) => sweeps' <= cfg.size]_vars

\* C7 amended: the first converged state comes after at most size + 1 sweeps.
C7_ConvergesWithinSizePlusOne ==
    [][(~has_converged(cfg) /\ has_converged(cfg')) => sweeps' <= cfg.size + 1]_vars

\* A value without tie has first converged at sweep size + 1.
C7_Witness ==
    /\ sweeps = cfg.size + 1
    /\ has_converged(cfg)
    /\ ~has_converged(sweep_n(new(initial, cfg.size), cfg.size))
    /\ ~Tie(initial, cfg.size)

\* C8: on a tie is_correct() returns true without any call of update(),
\* leaving every field as constructed.
C8_TieShortCircuit ==
    (pc = "done" /\ Tie(initial, cfg.size)) =>
        /\ result = TRUE
        /\ iteration_count = 0
        /\ cfg = new(initial, cfg.size)

\* The oracle has returned on a tie that is not converged.
C8_Witness ==
    /\ pc = "done" /\ Tie(initial, cfg.size) /\ cfg.size = 4
    /\ ~has_converged(cfg)

\* Steps is_correct() can still take: a bound that every step lowers.
Remaining ==
    CASE pc = "count" -> cfg.size + 3
      [] pc = "loop" -> cfg.size + 2 - iteration_count
      [] OTHER -> 0

\* C9: is_correct() returns: until it has, it is at a step that can be taken
\* (the guards of the two steps are pc = "count" and pc = "loop") and every
\* step lowers a bound; it calls update() at most size + 1 times, stops as soon as
\* has_converged() holds, and answers false when the sweep count exceeds
\* size without convergence.
C9_OracleTerminates ==
    /\ [](iteration_count <= cfg.size + 1)
    /\ [](pc \in {"count", "loop", "done"})
    /\ [][/\ Remaining' < Remaining
          /\ Remaining' >= 0
          /\ (pc = "loop" /\ has_converged(cfg)) =>
               (pc' = "done" /\ cfg' = cfg /\ iteration_count' = iteration_count)
          /\ (pc = "loop" /\ ~has_converged(cfg) /\ iteration_count > cfg.size) =>
               (pc' = "done" /\ result' = FALSE /\ cfg' = cfg)]_vars

\* The oracle has returned after using size + 1 sweeps.
C9_Witness ==
    pc = "done" /\ iteration_count = cfg.size + 1 /\ has_converged(cfg)

\* C10: has_converged() is true exactly if no cell is Intermediate and the
\* value bits of the cells are all 0 or all 1.
C10_ConvergedMeaning ==
    has_converged(cfg) <=>
        (NoIntermediate(cfg) /\ (AllCells(cfg, 0) \/ AllCells(cfg, 1)))

\* Sweeps have led to the converged all-1 ring.
C10_Witness ==
    /\ sweeps >= 1
    /\ ~has_converged(new(initial, cfg.size))
    /\ has_converged(cfg)
    /\ AllCells(cfg, 1)

\* ------------------------------------------------ the rule, cell by cell
\* The six attributes of cell k.
Cell(c, k) ==
    [value |-> TestBit(c.value, k), isIntermediate |-> TestBit(c.alphabet, k),
     captured |-> TestBit(c.taken, k), color |-> TestBit(c.color, k),
     memHas0 |-> TestBit(c.mem_0, k), memHas1 |-> TestBit(c.mem_1, k)]

\* The cell with its own value added to its memory set and marked captured.
Capture(a) ==
    IF a.value THEN [a EXCEPT !.memHas1 = TRUE, !.captured = TRUE]
               ELSE [a EXCEPT !.memHas0 = TRUE, !.captured = TRUE]

\* The four-case transition table: new attributes of a cell from its own
\* attributes and those of its left neighbor.
Table(self, left) ==
    IF ~left.isIntermediate /\ ~self.isIntermediate
    THEN IF self.value = left.value
         THEN self
         ELSE Capture([self EXCEPT !.isIntermediate = TRUE])
    ELSE IF ~left.isIntermediate
    THEN [self EXCEPT !.isIntermediate = FALSE, !.value = left.value]
    ELSE IF ~self.isIntermediate \/ self.color # left.color
    THEN LET copied == [self EXCEPT !.isIntermediate = TRUE,
                                    !.color = left.color,
                                    !.memHas0 = left.memHas0,
                                    !.memHas1 = left.memHas1]
         IN  IF copied.captured
                \/ (copied.value /\ copied.memHas1)
                \/ (~copied.value /\ copied.memHas0)
             THEN copied
             ELSE Capture(copied)
    ELSE IF left.memHas0 /\ left.memHas1
    THEN [self EXCEPT !.color = ~self.color, !.memHas0 = FALSE,
                      !.memHas1 = FALSE]
    ELSE [self EXCEPT !.isIntermediate = FALSE, !.value = left.memHas1]

\* A word without its bit k.
WithoutBit(x, k) == x - ((x \div (2 ^ k)) % 2) * 2 ^ k

\* C11: one update() applies the rule to each cell once, in index order: cell
\* 0 reads cell size-1 as it stood before the sweep, every cell k >= 1 reads
\* cell k-1 as this sweep left it.
C11_SequentialSweep ==
    [][/\ Cell(cfg', 0) = Table(Cell(cfg, 0), Cell(cfg, cfg.size - 1))
       /\ \A k \in 1 .. cfg.size - 1 :
             Cell(cfg', k) = Table(Cell(cfg, k), Cell(cfg', k - 1))]_vars

\* A sweep has changed cell 0 and the last cell, away from convergence.
C11_Witness ==
    /\ sweeps = 1
    /\ cfg.size >= 3
    /\ Cell(cfg, 0) # Cell(new(initial, cfg.size), 0)
    /\ Cell(cfg, cfg.size - 1) # Cell(new(initial, cfg.size), cfg.size - 1)
    /\ ~has_converged(cfg)

\* C12 as stated: of the 16 values of size 4, exactly 4 are ties that
\* short-circuit and exactly 12 are decided by the loop.
ShortCircuits(size) ==
    {v \in ValidValues(size) : count_0(new(v, size)) = count_1(new(v, size))}

C12_FourTiesOfSixteen ==
    cfg.size = 4 =>
        /\ Cardinality(ValidValues(4)) = 16
        /\ Cardinality(ShortCircuits(4)) = 4
        /\ Cardinality(ValidValues(4) \ ShortCircuits(4)) = 12
        /\ pc = "loop" => initial \notin ShortCircuits(4)
        /\ (pc = "done" /\ initial \in ShortCircuits(4)) =>
              (result = TRUE /\ iteration_count = 0)

\* C12 amended: exactly 6 are ties that short-circuit, exactly 10 are decided
\* by the loop.
C12_SixTiesOfSixteen ==
    cfg.size = 4 =>
        /\ Cardinality(ValidValues(4)) = 16
        /\ Cardinality(ShortCircuits(4)) = 6
        /\ Cardinality(ValidValues(4) \ ShortCircuits(4)) = 10
        /\ pc = "loop" => initial \notin ShortCircuits(4)
        /\ (pc = "done" /\ initial \in ShortCircuits(4)) =>
              (result = TRUE /\ iteration_count = 0)

\* The oracle has short-circuited on 1001, a tie of size 4.
C12_Witness ==
    /\ cfg.size = 4 /\ initial = 9 /\ pc = "done"
    /\ iteration_count = 0 /\ result = TRUE

\* C13: a call apply_local_function(left, index), left # index, changes at
\* most bit `index` of the six fields, and not the size.
C13_RuleFrame ==
    cpc = "returned" =>
        /\ cfg.size = before.size
        /\ WithoutBit(cfg.value, index_arg) = WithoutBit(before.value, index_arg)
        /\ WithoutBit(cfg.alphabet, index_arg) = WithoutBit(before.alphabet, index_arg)
        /\ WithoutBit(cfg.taken, index_arg) = WithoutBit(before.taken, index_arg)
        /\ WithoutBit(cfg.color, index_arg) = WithoutBit(before.color, index_arg)
        /\ WithoutBit(cfg.mem_0, index_arg) = WithoutBit(before.mem_0, index_arg)
        /\ WithoutBit(cfg.mem_1, index_arg) = WithoutBit(before.mem_1, index_arg)

\* A scan has rewritten the cell next to a left neighbor and a third cell
\* whose bits are all set.
C13_Witness ==
    /\ cpc = "returned"
    /\ cfg.size = 3
    /\ TestBit(before.alphabet, left_arg)
    /\ ~TestBit(before.alphabet, index_arg)
    /\ Cell(cfg, index_arg) # Cell(before, index_arg)
    /\ \E k \in (0 .. 2) \ {left_arg, index_arg} :
          /\ TestBit(cfg.value, k) /\ TestBit(cfg.alphabet, k)
          /\ TestBit(cfg.color, k) /\ TestBit(cfg.mem_0, k)

\* C14: for every combination of the attributes of the cell and of its left
\* neighbor, the cell's new attributes are those of the four-case table.
C14_RuleIsTable ==
    cpc = "returned" =>
        Cell(cfg, index_arg)
            = Table(Cell(before, index_arg), Cell(before, left_arg))

\* A scan has captured the value of a cell of another color.
C14_Witness ==
    /\ cpc = "returned"
    /\ TestBit(before.alphabet, left_arg)
    /\ TestBit(before.alphabet, index_arg)
    /\ TestBit(before.color, left_arg) # TestBit(before.color, index_arg)
    /\ ~TestBit(before.taken, index_arg)
    /\ TestBit(cfg.taken, index_arg)

\* A call of the rule has been made in the cell-by-cell sweep.
CallMade == cpc = "sweep" /\ (calls > 0 \/ sweeps > 0)

\* The configuration with cell k reduced to its value bit.
Scrub(c, k) ==
    [c EXCEPT !.taken = ClearBit(c.taken, k), !.color = ClearBit(c.color, k),
              !.mem_0 = ClearBit(c.mem_0, k), !.mem_1 = ClearBit(c.mem_1, k)]

\* Two cells that cannot be told apart: both Boolean with the same value, or
\* both Intermediate with the same attributes.
SameCell(a, b) ==
    /\ a.isIntermediate = b.isIntermediate
    /\ a.value = b.value
    /\ a.isIntermediate => a = b

\* C15: in every configuration reached by sweeps, the outcome of the rule on
\* a Boolean cell is the outcome on the same cell with its captured, color and
\* memory bits cleared; a kick start leaves exactly the own value in memory.
C15_BooleanCarriesOnlyValue ==
    (CallMade /\ ~TestBit(before.alphabet, index_arg)) =>
        /\ SameCell(Cell(cfg, index_arg),
                    Cell(apply_local_function(Scrub(before, index_arg),
                                              left_arg, index_arg), index_arg))
        /\ (~TestBit(before.alphabet, left_arg)
            /\ TestBit(before.value, left_arg) # TestBit(before.value, index_arg))
           => /\ TestBit(cfg.mem_1, index_arg) = TestBit(before.value, index_arg)
              /\ TestBit(cfg.mem_0, index_arg) = ~TestBit(before.value, index_arg)

\* The rule has been applied to a Boolean cell that still carries captured and
\* memory bits of an earlier Intermediate phase.
C15_Witness ==
    /\ CallMade
    /\ ~TestBit(before.alphabet, index_arg)
    /\ TestBit(before.taken, index_arg)
    /\ TestBit(before.mem_0, index_arg) \/ TestBit(before.mem_1, index_arg)
    /\ ~has_converged(new(initial, cfg.size))

\* The latest call took the phase-flip branch: cell and left neighbor both
\* Intermediate, of the same color, left's memory holding both 0 and 1.
PhaseFlipped ==
    /\ CallMade
    /\ TestBit(before.alphabet, left_arg)
    /\ TestBit(before.alphabet, index_arg)
    /\ TestBit(before.color, left_arg) = TestBit(before.color, index_arg)
    /\ TestBit(before.mem_0, left_arg) /\ TestBit(before.mem_1, left_arg)

\* C16: whenever a sweep reaches the phase-flip branch, the cell's taken flag
\* is already set.
C16_FlipOnlyWhenTaken == PhaseFlipped => TestBit(before.taken, index_arg)

\* A phase flip has inverted the color of a captured cell and emptied its
\* memory.
C16_Witness ==
    /\ PhaseFlipped
    /\ TestBit(before.taken, index_arg)
    /\ TestBit(cfg.color, index_arg) # TestBit(before.color, index_arg)
    /\ ~TestBit(cfg.mem_0, index_arg) /\ ~TestBit(cfg.mem_1, index_arg)
    /\ TestBit(before.mem_0, index_arg) \/ TestBit(before.mem_1, index_arg)

\* The branch of the transition rule that a call on configuration c takes.
Branch(c, left, index) ==
    IF ~TestBit(c.alphabet, left)
    THEN IF TestBit(c.alphabet, index) THEN "propagation"
         ELSE IF TestBit(c.value, left) = TestBit(c.value, index) THEN "same"
         ELSE "kick start"
    ELSE IF \/ ~TestBit(c.alphabet, index)
            \/ TestBit(c.color, left) # TestBit(c.color, index) THEN "scanning"
         ELSE IF TestBit(c.mem_0, left) /\ TestBit(c.mem_1, left) THEN "phase flip"
         ELSE "resolution"

\* C17: the rule changes a cell's value bit only in a propagation or a
\* resolution step, after which the cell is Boolean; kick-start, scanning and
\* phase-flip steps leave the value bit unchanged.
C17_ValueKeptWhileIntermediate ==
    cpc = "returned" =>
        /\ TestBit(cfg.value, index_arg) # TestBit(before.value, index_arg)
           => /\ ~TestBit(cfg.alphabet, index_arg)
              /\ Branch(before, left_arg, index_arg) \in {"propagation", "resolution"}
        /\ Branch(before, left_arg, index_arg) \in {"kick start", "scanning", "phase flip"}
           => /\ TestBit(cfg.value, index_arg) = TestBit(before.value, index_arg)
              /\ TestBit(cfg.alphabet, index_arg)

\* A resolution has overwritten the captured value of an Intermediate cell,
\* which is Boolean afterwards.
C17_Witness ==
    /\ cpc = "returned"
    /\ Branch(before, left_arg, index_arg) = "resolution"
    /\ TestBit(before.value, index_arg) /\ TestBit(before.taken, index_arg)
    /\ ~TestBit(cfg.value, index_arg)
    /\ ~TestBit(cfg.alphabet, index_arg)

\* Turns the trace loop can still make: none once has_converged() holds.
TraceRemaining == IF has_converged(cfg) THEN 0 ELSE cfg.size + 2 - sweeps

\* C18: the loops `while !has_converged() { update() }` end for every valid
\* initial value, ties included: while the loop condition holds fewer than
\* size + 1 turns have been made (so the next turn can be taken, and the cap on
\* turns is never what stops the loop), and every turn lowers a bound that
\* stays non-negative.
C18_TraceLoopEnds ==
    /\ [](~has_converged(cfg) => sweeps <= cfg.size)
    /\ [][/\ sweeps' = sweeps + 1
          /\ TraceRemaining' < TraceRemaining
          /\ TraceRemaining' >= 0]_vars

\* The loop has ended on a tie after size + 1 turns.
C18_Witness ==
    /\ Tie(initial, cfg.size)
    /\ cfg.size >= 4
    /\ sweeps = cfg.size + 1
    /\ has_converged(cfg)

\* No bit of x at an index >= size is set.
InsideRing(x, size) == x < 2 ^ size

\* C19: from Configuration::new(value, size) with no value bit at an index
\* >= size, after any number of calls of update() all six fields have every
\* bit at an index >= size clear, and size is unchanged.
C19_OutsideBitsStayClear ==
    /\ [](/\ InsideRing(cfg.value, cfg.size)
          /\ InsideRing(cfg.alphabet, cfg.size)
          /\ InsideRing(cfg.taken, cfg.size)
          /\ InsideRing(cfg.color, cfg.size)
          /\ InsideRing(cfg.mem_0, cfg.size)
          /\ InsideRing(cfg.mem_1, cfg.size))
    /\ [][cfg'.size = cfg.size]_vars

\* After several sweeps the last cell of the ring, next to the first bit
\* outside it, is Intermediate, captured, colored and has memory.
C19_Witness ==
    /\ sweeps >= 2
    /\ TestBit(cfg.alphabet, cfg.size - 1)
    /\ TestBit(cfg.taken, cfg.size - 1)
    /\ TestBit(cfg.color, cfg.size - 1)
    /\ TestBit(cfg.mem_0, cfg.size - 1) \/ TestBit(cfg.mem_1, cfg.size - 1)
    /\ InsideRing(cfg.alphabet, cfg.size)

====
